---- MODULE Spec2Model ----
(***************************************************************************)
(* A model of the jira-mcp configuration installer.                        *)
(*                                                                         *)
(*  - src/src/setup.ts: getConfigFileInfo, createJiraServerConfig,         *)
(*    readConfigFile, ensureDirectoryExists and injectMcpConfig, run       *)
(*    against a small file system (files, directories, permissions).       *)
(*  - the batch installer of the interactive installer, which runs the     *)
(*    injection once per selected target.                                  *)
(*  - the interactive installer's session state machine (App): keyboard    *)
(*    and paste handlers, which read the state captured by the last        *)
(*    render and queue updates to the current state.                       *)
(*                                                                         *)
(* Paths are sequences of segments; strings that the code inspects         *)
(* character by character (form fields, pasted text) are sequences of      *)
(* one-character strings.                                                  *)
(***************************************************************************)
EXTENDS Integers, Sequences, FiniteSets, TLC

VARIABLES
    platform,   \* process.platform of the machine
    files,      \* the disk: path -> [exists, text]
    dirs,       \* the directories that exist
    denyMkdir,  \* directories the user may not create
    denyWrite,  \* files the user may not write
    hist,       \* the setup command's injectMcpConfig invocations, latest last
    batch,      \* the batch installer's run
    env,        \* App: which App runs, what detection finds, JIRA_MCP_URL
    tools,      \* App: the tools state (legacyTools), in menu order
    st,         \* App: the component state (view, selection, form, result)
    clo,        \* App: the state of the last render, which the handlers read
    pending,    \* App: input events handled since the last render
    proc,       \* App: "mounting", "running", "exit0", "exit1" or "threw"
    edits,      \* App: input events that changed the form
    ev,         \* App: the latest input event, with the states it met
    injections, \* App: the injectConfig calls made, in order
    argv,       \* command line: the arguments after "setup", in pieces
    cmd,        \* command line: the setup command's run, once it has run
    rpc         \* server: the latest call_tool request and its outcome

envVars == <<platform, denyMkdir, denyWrite>>
setupVars == <<platform, files, dirs, denyMkdir, denyWrite, hist, batch>>
appVars == <<env, tools, st, clo, pending, proc, edits, ev, injections>>
cliVars == <<argv, cmd>>
serverVars == <<rpc>>
vars == <<platform, files, dirs, denyMkdir, denyWrite, hist, batch,
          env, tools, st, clo, pending, proc, edits, ev, injections,
          argv, cmd, rpc>>

----------------------------------------------------------------------------
(* Bounds of the model.                                                    *)

MaxCalls == 2
MaxBatch == 3
MaxTools == 2
MaxPending == 2
MaxEdits == 3
MaxInjections == 2
MaxArgs == 4

----------------------------------------------------------------------------
(* JavaScript values, as JSON.parse builds them and the code handles them. *)

Undefined == [t |-> "undefined"]
Null == [t |-> "null"]
Str(s) == [t |-> "str", s |-> s]
Num(n) == [t |-> "num", n |-> n]
Bool(b) == [t |-> "bool", b |-> b]
NoProps == [k \in {} |-> Null]
Arr(a) == [t |-> "arr", a |-> a, x |-> NoProps]
Obj(o) == [t |-> "obj", o |-> o]
TypeError == [t |-> "throw", e |-> "TypeError"]
SyntaxError == [t |-> "throw", e |-> "SyntaxError"]

IsThrow(v) == v.t = "throw"

\* ToBoolean: what `!value` and `if (value)` test.
Truthy(v) ==
    CASE v.t = "undefined" -> FALSE
      [] v.t = "null" -> FALSE
      [] v.t = "str" -> v.s # ""
      [] v.t = "num" -> v.n # "0"
      [] v.t = "bool" -> v.b
      [] OTHER -> TRUE

\* value[key] for a string key that is no array index.
GetProp(v, key) ==
    CASE v.t = "obj" -> IF key \in DOMAIN v.o THEN v.o[key] ELSE Undefined
      [] v.t = "arr" -> IF key \in DOMAIN v.x THEN v.x[key] ELSE Undefined
      [] v.t \in {"undefined", "null"} -> TypeError
      [] OTHER -> Undefined

\* value[key] = val in strict mode (an ES module): a property of a primitive
\* cannot be created; an array takes the property beside its elements.
SetProp(v, key, val) ==
    CASE v.t = "obj" ->
            Obj([k \in DOMAIN v.o \cup {key} |-> IF k = key THEN val ELSE v.o[k]])
      [] v.t = "arr" ->
            [v EXCEPT !.x = [k \in DOMAIN v.x \cup {key} |->
                                IF k = key THEN val ELSE v.x[k]]]
      [] OTHER -> TypeError

----------------------------------------------------------------------------
(* JSON text.  A text is [fmt, syn]: its layout and its syntax tree.  A    *)
(* tree differs from a value in its numbers, which are literals.           *)

Garbage(g) == [t |-> "garbage", g |-> g]
Lit(l) == [t |-> "num", lit |-> l]
SArr(a) == [t |-> "arr", a |-> a]

\* The double a number literal denotes: "1.0" is 1, "1e999" is beyond the
\* range of a double and reads as Infinity.
NumberOf(lit) ==
    CASE lit = "1.0" -> "1"
      [] lit = "1e999" -> "Infinity"
      [] OTHER -> lit

RECURSIVE ValueOf(_)
ValueOf(syn) ==
    CASE syn.t = "obj" -> Obj([k \in DOMAIN syn.o |-> ValueOf(syn.o[k])])
      [] syn.t = "arr" -> Arr([i \in DOMAIN syn.a |-> ValueOf(syn.a[i])])
      [] syn.t = "num" -> Num(NumberOf(syn.lit))
      [] OTHER -> syn

\* JSON.parse(content)
JSONparse(text) ==
    IF text.syn.t = "garbage" THEN SyntaxError ELSE ValueOf(text.syn)

\* JSON.stringify's tree of a value: a non-finite number is written null,
\* an array is written by its elements alone, a property whose value is
\* undefined is left out.
RECURSIVE TreeOf(_)
TreeOf(v) ==
    CASE v.t = "obj" ->
            Obj([k \in {j \in DOMAIN v.o : v.o[j].t # "undefined"} |->
                    TreeOf(v.o[k])])
      [] v.t = "arr" -> SArr([i \in DOMAIN v.a |-> TreeOf(v.a[i])])
      [] v.t = "num" -> IF v.n = "Infinity" THEN Null ELSE Lit(v.n)
      [] OTHER -> v

\* JSON.stringify(config, null, 2) + '\n'
JSONstringify(v) == [fmt |-> "indent2", syn |-> TreeOf(v)]

----------------------------------------------------------------------------
(* src/src/setup.ts                                                        *)

SupportedCli ==
    {"claude-code", "claude-desktop", "copilot", "cursor",
     "windsurf", "roo-code", "zed", "factory-droid"}
ConfigScope == {"user", "project"}
Platforms == {"linux", "darwin", "win32"}

home == <<"~">>
cwd == <<".">>

\* Variant: only the last segment is joined to the base.
joinLast(base, segs) == base \o <<segs[Len(segs)]>>

\* path.join
join(base, segs) == base \o segs

\* path.dirname: '.' for a path of one segment and for the empty path.
dirname(path) == IF Len(path) <= 1 THEN cwd ELSE SubSeq(path, 1, Len(path) - 1)

Info(p, w) == [path |-> p, wrapperKey |-> w, serverKey |-> "jira"]
NoInfo == [path |-> <<>>, wrapperKey |-> "", serverKey |-> ""]

ClaudeDesktopUserPath(pf) ==
    CASE pf = "darwin" ->
            join(home, <<"Library", "Application Support", "Claude",
                         "claude_desktop_config.json">>)
      [] pf = "win32" ->
            join(<<"%APPDATA%">>, <<"Claude", "claude_desktop_config.json">>)
      [] OTHER ->
            join(home, <<".config", "Claude", "claude_desktop_config.json">>)

\* The configs table of getConfigFileInfo.
configs(pf) ==
    [c \in SupportedCli |->
        CASE c = "claude-code" ->
                [user |-> Info(join(home, <<".claude.json">>), "mcpServers"),
                 project |-> Info(join(cwd, <<".mcp.json">>), "mcpServers")]
          [] c = "claude-desktop" ->
                [user |-> Info(ClaudeDesktopUserPath(pf), "mcpServers"),
                 project |-> NoInfo]
          [] c = "copilot" ->
                [user |-> Info(join(home, <<".mcp.json">>), "servers"),
                 project |-> Info(join(cwd, <<".vscode", "mcp.json">>), "servers")]
          [] c = "cursor" ->
                [user |-> Info(join(home, <<".cursor", "mcp.json">>), "mcpServers"),
                 project |-> Info(join(cwd, <<".cursor", "mcp.json">>), "mcpServers")]
          [] c = "windsurf" ->
                [user |-> Info(join(home, <<".codeium", "windsurf", "mcp_config.json">>),
                               "mcpServers"),
                 project |-> Info(join(cwd, <<".windsurf", "mcp_config.json">>),
                                  "mcpServers")]
          [] c = "roo-code" ->
                [user |-> Info(join(home, <<".roo", "mcp.json">>), "mcpServers"),
                 project |-> Info(join(cwd, <<".roo", "mcp.json">>), "mcpServers")]
          [] c = "zed" ->
                [user |-> Info(join(home, <<".config", "zed", "settings.json">>),
                               "context_servers"),
                 project |-> Info(join(cwd, <<".zed", "settings.json">>),
                                  "context_servers")]
          [] OTHER ->
                [user |-> Info(join(home, <<".factory", "mcp.json">>), "mcpServers"),
                 project |-> Info(join(cwd, <<".factory", "mcp.json">>), "mcpServers")]]

NullInfo == [null |-> TRUE]
IsNullInfo(info) == "null" \in DOMAIN info

\* Variant: the entry is returned without the test of its path.
getConfigFileInfoNoPathTest(pf, cli, scope) ==
    IF cli \notin SupportedCli \/ scope \notin ConfigScope
    THEN NullInfo
    ELSE configs(pf)[cli][scope]

\* getConfigFileInfo(cli, scope): null when the table has no such entry or
\* the entry's path is empty.
getConfigFileInfoOn(pf, cli, scope) ==
    IF cli \notin SupportedCli \/ scope \notin ConfigScope
    THEN NullInfo
    ELSE LET configInfo == configs(pf)[cli][scope]
         IN  IF configInfo.path = <<>> THEN NullInfo ELSE configInfo

getConfigFileInfo(cli, scope) == getConfigFileInfoOn(platform, cli, scope)

\* Variant: the username and the password change places.
createJiraServerConfigSwapped(options) ==
    Obj([k \in {"command", "args", "env"} |->
        CASE k = "command" -> Str("npx")
          [] k = "args" -> Arr(<<Str("-y"), Str("@lvmk/jira-mcp")>>)
          [] OTHER ->
                Obj([e \in {"JIRA_BASE_URL", "JIRA_USERNAME", "JIRA_PASSWORD"} |->
                    CASE e = "JIRA_BASE_URL" -> Str(options.baseUrl)
                      [] e = "JIRA_USERNAME" -> Str(options.password)
                      [] OTHER -> Str(options.username)])])

\* createJiraServerConfig(options)
createJiraServerConfig(options) ==
    Obj([k \in {"command", "args", "env"} |->
        CASE k = "command" -> Str("npx")
          [] k = "args" -> Arr(<<Str("-y"), Str("@lvmk/jira-mcp")>>)
          [] OTHER ->
                Obj([e \in {"JIRA_BASE_URL", "JIRA_USERNAME", "JIRA_PASSWORD"} |->
                    CASE e = "JIRA_BASE_URL" -> Str(options.baseUrl)
                      [] e = "JIRA_USERNAME" -> Str(options.username)
                      [] OTHER -> Str(options.password)])])

NoFile == [exists |-> FALSE, text |-> [fmt |-> "", syn |-> Null]]
File(text) == [exists |-> TRUE, text |-> text]
FileAt(disk, filePath) ==
    IF filePath \in DOMAIN disk.files THEN disk.files[filePath] ELSE NoFile

\* readConfigFile(filePath): the parsed content, or {} when the file is
\* absent or JSON.parse throws (the catch only warns).
readConfigFile(filePath, disk) ==
    IF FileAt(disk, filePath).exists
    THEN LET parsed == JSONparse(FileAt(disk, filePath).text)
         IN  [value |-> IF IsThrow(parsed) THEN Obj(NoProps) ELSE parsed,
              warned |-> IsThrow(parsed),
              ops |-> <<[op |-> "existsSync", path |-> filePath],
                        [op |-> "readFileSync", path |-> filePath]>>]
    ELSE [value |-> Obj(NoProps), warned |-> FALSE,
          ops |-> <<[op |-> "existsSync", path |-> filePath]>>]

Ancestors(dir) == {SubSeq(dir, 1, i) : i \in 1..Len(dir)}

\* ensureDirectoryExists(filePath): mkdirSync(dir, {recursive: true}) when
\* the directory is missing; it creates the missing ancestors from the top
\* and throws at the first one the user may not create.
ensureDirectoryExists(filePath, disk) ==
    LET dir == dirname(filePath)
        missing == Ancestors(dir) \ disk.dirs
        denied == missing \cap denyMkdir
        made == IF denied = {} THEN missing
                ELSE {a \in missing : \A b \in denied : Len(a) < Len(b)}
    IN  IF dir \in disk.dirs
        THEN [threw |-> FALSE, dirs |-> disk.dirs,
              ops |-> <<[op |-> "existsSync", path |-> dir]>>]
        ELSE [threw |-> denied # {}, dirs |-> disk.dirs \cup made,
              ops |-> <<[op |-> "existsSync", path |-> dir],
                        [op |-> "mkdirSync", path |-> dir]>>]

\* fs.writeFileSync(path, text, 'utf-8'): throws for the empty path, a
\* missing directory and a file the user may not write.
writeFileSync(filePath, text, disk) ==
    IF filePath = <<>> \/ filePath \in denyWrite
        \/ dirname(filePath) \notin disk.dirs
    THEN [threw |-> TRUE, files |-> disk.files]
    ELSE [threw |-> FALSE,
          files |-> [p \in DOMAIN disk.files \cup {filePath} |->
                        IF p = filePath THEN File(text) ELSE disk.files[p]]]

\* Variant: an entry that is already there is kept.
MergeConfigKeepExisting(config, configInfo, options) ==
    LET wrapperKey == configInfo.wrapperKey
        found == GetProp(config, wrapperKey)
    IN  IF IsThrow(found) THEN found
        ELSE LET config1 == IF ~Truthy(found)
                            THEN SetProp(config, wrapperKey, Obj(NoProps))
                            ELSE config
             IN  IF IsThrow(config1) THEN config1
                 ELSE LET wrapper == GetProp(config1, wrapperKey)
                          wrapper1 ==
                            IF Truthy(GetProp(wrapper, configInfo.serverKey))
                            THEN wrapper
                            ELSE SetProp(wrapper, configInfo.serverKey,
                                         createJiraServerConfig(options))
                      IN  IF IsThrow(wrapper1) THEN wrapper1
                          ELSE SetProp(config1, wrapperKey, wrapper1)

\* injectMcpConfig, the merge: get or create the wrapper object, then set
\* the server entry in it.  The wrapper is a reference into config.
MergeConfig(config, configInfo, options) ==
    LET wrapperKey == configInfo.wrapperKey
        found == GetProp(config, wrapperKey)
    IN  IF IsThrow(found) THEN found
        ELSE LET config1 == IF ~Truthy(found)
                            THEN SetProp(config, wrapperKey, Obj(NoProps))
                            ELSE config
             IN  IF IsThrow(config1) THEN config1
                 ELSE LET wrapper == GetProp(config1, wrapperKey)
                          wrapper1 == SetProp(wrapper, configInfo.serverKey,
                                              createJiraServerConfig(options))
                      IN  IF IsThrow(wrapper1) THEN wrapper1
                          ELSE SetProp(config1, wrapperKey, wrapper1)

Failure(message, disk, ops) ==
    [threw |-> FALSE, ret |-> [success |-> FALSE, message |-> message],
     files |-> disk.files, dirs |-> disk.dirs, ops |-> ops]

Thrown(disk, ops) ==
    [threw |-> TRUE, ret |-> [success |-> FALSE, message |-> <<>>],
     files |-> disk.files, dirs |-> disk.dirs, ops |-> ops]

\* Variant: the directory and the file are handled outside the try block.
WriteConfigUncaught(configInfo, options, disk) ==
    LET read == readConfigFile(configInfo.path, disk)
        config == MergeConfig(read.value, configInfo, options)
        ensured == ensureDirectoryExists(configInfo.path, disk)
        disk1 == [files |-> disk.files, dirs |-> ensured.dirs]
        written == writeFileSync(configInfo.path, JSONstringify(config), disk1)
        wop == <<[op |-> "writeFileSync", path |-> configInfo.path]>>
    IN  IF IsThrow(config)
        THEN Failure(<<"Error writing config: ", config.e>>, disk, read.ops)
        ELSE IF ensured.threw
        THEN Thrown(disk1, read.ops \o ensured.ops)
        ELSE IF written.threw
        THEN Thrown(disk1, read.ops \o ensured.ops \o wop)
        ELSE [threw |-> FALSE,
              ret |-> [success |-> TRUE,
                       message |-> <<"Successfully configured Jira MCP for ",
                                     options.cli, " (", options.scope,
                                     " scope)", "Config file: ">>],
              files |-> written.files, dirs |-> disk1.dirs,
              ops |-> read.ops \o ensured.ops \o wop]

\* injectMcpConfig, the try block and its catch: read, merge, ensure the
\* directory, write; whatever is thrown becomes a failure result.
WriteConfig(configInfo, options, disk) ==
    LET read == readConfigFile(configInfo.path, disk)
        config == MergeConfig(read.value, configInfo, options)
        ensured == ensureDirectoryExists(configInfo.path, disk)
        disk1 == [files |-> disk.files, dirs |-> ensured.dirs]
        written == writeFileSync(configInfo.path, JSONstringify(config), disk1)
        wop == <<[op |-> "writeFileSync", path |-> configInfo.path]>>
    IN  IF IsThrow(config)
        THEN Failure(<<"Error writing config: ", config.e>>, disk, read.ops)
        ELSE IF ensured.threw
        THEN Failure(<<"Error writing config: ", "EACCES: mkdir">>,
                     disk1, read.ops \o ensured.ops)
        ELSE IF written.threw
        THEN Failure(<<"Error writing config: ", "EACCES: open">>,
                     disk1, read.ops \o ensured.ops \o wop)
        ELSE [threw |-> FALSE,
              ret |-> [success |-> TRUE,
                       message |-> <<"Successfully configured Jira MCP for ",
                                     options.cli, " (", options.scope,
                                     " scope)", "Config file: ">>],
              files |-> written.files, dirs |-> disk1.dirs,
              ops |-> read.ops \o ensured.ops \o wop]

\* injectMcpConfig(options)
injectMcpConfig(options, disk) ==
    LET configInfo == getConfigFileInfo(options.cli, options.scope)
    IN  IF IsNullInfo(configInfo)
        THEN Failure(<<"Error: ", options.cli, " does not support ",
                       options.scope, " scope configuration.">>, disk, <<>>)
        ELSE WriteConfig(configInfo, options, disk)

----------------------------------------------------------------------------
(* The batch installer: injection over the selected targets, in order.     *)

\* An optional string: <<>> for undefined, <<s>> for the string s.
Some(s) == <<s>>
None == <<>>

\* !value for an optional string: undefined and '' are falsy.
Falsy(opt) == opt = None \/ opt[1] = ""

\* The switch of parseSetupArgs applied from args[i] on.  A flag takes the
\* next element, undefined past the end, and the loop skips it.
RECURSIVE ParseLoop(_, _, _)
ParseLoop(args, i, options) ==
    IF i > Len(args) THEN options
    ELSE LET arg == args[i]
             nextArg == IF i + 1 <= Len(args) THEN Some(args[i + 1]) ELSE None
         IN  IF arg \in {"-c", "--cli"}
             THEN ParseLoop(args, i + 2, [options EXCEPT !.cli = nextArg])
             ELSE IF arg \in {"-b", "--base-url", "--url"}
             THEN ParseLoop(args, i + 2, [options EXCEPT !.baseUrl = nextArg])
             ELSE IF arg \in {"-u", "--username"}
             THEN ParseLoop(args, i + 2, [options EXCEPT !.username = nextArg])
             ELSE IF arg \in {"-p", "--password"}
             THEN ParseLoop(args, i + 2, [options EXCEPT !.password = nextArg])
             ELSE IF arg \in {"-s", "--scope"}
             THEN ParseLoop(args, i + 2, [options EXCEPT !.scope = nextArg])
             ELSE ParseLoop(args, i + 1, options)

validClis ==
    {"claude-code", "claude-desktop", "copilot", "cursor", "windsurf",
     "roo-code", "zed", "factory-droid"}

NullOptions == [null |-> TRUE]
IsNullOptions(options) == "null" \in DOMAIN options

\* parseSetupArgs(args): the options, or null.
parseSetupArgs(args) ==
    LET options == ParseLoop(args, 1,
                       [cli |-> None, baseUrl |-> None, username |-> None,
                        password |-> None, scope |-> Some("user")])
    IN  IF Falsy(options.cli) \/ options.cli[1] \notin validClis
        THEN NullOptions
        ELSE IF Falsy(options.baseUrl) \/ Falsy(options.username)
                    \/ Falsy(options.password)
        THEN NullOptions
        ELSE IF ~Falsy(options.scope)
                    /\ options.scope[1] \notin {"user", "project"}
        THEN NullOptions
        ELSE options

\* The text a template literal gives for an optional string.
Text(opt) == IF opt = None THEN "undefined" ELSE opt[1]

\* The options as injectMcpConfig reads them.
AsSetupOptions(options) ==
    [cli |-> options.cli[1], scope |-> Text(options.scope),
     baseUrl |-> options.baseUrl[1], username |-> options.username[1],
     password |-> options.password[1]]

\* index.ts, case 'setup': no argument or a help flag prints the help;
\* otherwise the arguments are parsed; null ends the process with code 1; otherwise injectMcpConfig runs and its failure ends the
\* process with code 1.
RunSetup(args, disk) ==
    LET options == parseSetupArgs(args)
    IN  IF Len(args) = 0 \/ \E i \in DOMAIN args : args[i] \in {"--help", "-h"}
        THEN [options |-> NullOptions, injected |-> FALSE, exit |-> 0,
              message |-> <<"help">>,
              files |-> disk.files, dirs |-> disk.dirs]
        ELSE IF IsNullOptions(options)
        THEN [options |-> options, injected |-> FALSE, exit |-> 1,
              message |-> <<"Error: Invalid arguments. Run with --help for usage.">>,
              files |-> disk.files, dirs |-> disk.dirs]
        ELSE LET out == injectMcpConfig(AsSetupOptions(options), disk)
             IN  [options |-> options, injected |-> TRUE,
                  exit |-> IF out.ret.success THEN 0 ELSE 1,
                  message |-> out.ret.message,
                  files |-> out.files, dirs |-> out.dirs]

NotRun == [exit |-> -1]
CliOff ==
    /\ argv = <<>>
    /\ cmd = NotRun

\* The server has handled no request.
NoRequest == [name |-> ""]
ServerOff == rpc = NoRequest

\* One target's Injection Result.
InstallResult(cli, out) ==
    [targetId |-> cli, success |-> out.ret.success, message |-> out.ret.message]

Idle == [status |-> "idle", targets |-> <<>>, scope |-> "", creds |-> <<>>,
         results |-> <<>>, pre |-> <<>>]

----------------------------------------------------------------------------
(* The installer's App component: session state and input handlers.        *)

Key(name) == [name |-> name, ctrl |-> FALSE, meta |-> FALSE]
CtrlKey(name) == [name |-> name, ctrl |-> TRUE, meta |-> FALSE]

kReturn == <<"r", "e", "t", "u", "r", "n">>
kEscape == <<"e", "s", "c", "a", "p", "e">>
kUp == <<"u", "p">>
kDown == <<"d", "o", "w", "n">>
kTab == <<"t", "a", "b">>
kBackspace == <<"b", "a", "c", "k", "s", "p", "a", "c", "e">>

\* The key names the character input leaves out.
NonTextKeys ==
    {kUp, kDown, <<"l", "e", "f", "t">>, <<"r", "i", "g", "h", "t">>,
     <<"h", "o", "m", "e">>, <<"e", "n", "d">>,
     <<"p", "a", "g", "e", "u", "p">>, <<"p", "a", "g", "e", "d", "o", "w", "n">>,
     <<"d", "e", "l", "e", "t", "e">>, <<"i", "n", "s", "e", "r", "t">>}

\* The characters of the class [\x00-\x1F\x7F] that the inputs hold.
ControlChars == {"\t", "\n"}

\* text.replace(/[\x00-\x1F\x7F]/g, '')
RemoveControl(text) == SelectSeq(text, LAMBDA ch : ch \notin ControlChars)

IsSpace(ch) == ch \in {" ", "\t", "\n"}

\* String.prototype.trimEnd and trim
trimEnd(text) ==
    LET keep == {i \in DOMAIN text : ~IsSpace(text[i])}
    IN  IF keep = {} THEN <<>>
        ELSE SubSeq(text, 1, CHOOSE i \in keep : \A j \in keep : j <= i)
trim(text) ==
    LET keep == {i \in DOMAIN text : ~IsSpace(text[i])}
    IN  IF keep = {} THEN <<>>
        ELSE SubSeq(text, CHOOSE i \in keep : \A j \in keep : i <= j,
                          CHOOSE i \in keep : \A j \in keep : j <= i)

\* /^https?:\/\//.test(baseUrl)
UrlLike(baseUrl) ==
    /\ Len(baseUrl) >= 7
    /\ SubSeq(baseUrl, 1, 4) = <<"h", "t", "t", "p">>
    /\ LET rest == IF baseUrl[5] = "s" THEN 6 ELSE 5
       IN  /\ Len(baseUrl) >= rest + 2
           /\ SubSeq(baseUrl, rest, rest + 2) = <<":", "/", "/">>

\* The validation of the Enter key in the credentials view.
FormAccepted(form) ==
    /\ ~(form.baseUrl = <<>> \/ form.username = <<>> \/ form.password = <<>>)
    /\ UrlLike(form.baseUrl)

NoTool == "null"
NoResult == [set |-> FALSE, success |-> FALSE]
EmptyForm == [baseUrl |-> <<>>, username |-> <<>>, password |-> <<>>]

fieldMap(currentField) ==
    CASE currentField = "url" -> "baseUrl"
      [] currentField = "username" -> "username"
      [] OTHER -> "password"

\* setForm((prev) => ({ ...prev, [fieldKey]: value }))
WithField(form, currentField, value) ==
    [form EXCEPT ![fieldMap(currentField)] = value]

PrevField(currentField) ==
    CASE currentField = "password" -> "username"
      [] currentField = "username" -> "url"
      [] OTHER -> currentField
NextField(currentField) ==
    CASE currentField = "url" -> "username"
      [] currentField = "username" -> "password"
      [] OTHER -> currentField

\* What a handler leaves behind: the state with its queued updates applied,
\* whether the process ended, and the injectConfig calls it made.
Stay(s) == [st |-> s, proc |-> "running", injected |-> <<>>]
Quit(s) == [st |-> s, proc |-> "exit0", injected |-> <<>>]

\* handleKeyboard, the result views: only quit.
ResultView(key, c, s) ==
    IF key.name \in {<<"q">>, <<"Q">>, kEscape} THEN Quit(s) ELSE Stay(s)

\* handleKeyboard, the confirm view.  ok is what injectConfig reports.
ConfirmView(key, c, s, ok) ==
    IF key.name \in {<<"y">>, <<"Y">>}
    THEN IF c.selectedTool = NoTool
         THEN [st |-> s, proc |-> "threw", injected |-> <<>>]
         ELSE [st |-> [s EXCEPT !.result = [set |-> TRUE, success |-> ok],
                                !.view = IF ok THEN "success" ELSE "error"],
               proc |-> "running",
               injected |-> <<[tool |-> c.selectedTool, form |-> c.form]>>]
    ELSE IF key.name \in {<<"n">>, <<"N">>, kEscape}
    THEN Stay([s EXCEPT !.view = "credentials"])
    ELSE Stay(s)

\* Ctrl+W: the field without its last word.
DeleteWord(value) ==
    LET trimmed == trimEnd(value)
        spaces == {i \in DOMAIN trimmed : trimmed[i] = " "}
    IN  IF spaces = {} THEN <<>>
        ELSE SubSeq(trimmed, 1, CHOOSE i \in spaces : \A j \in spaces : j <= i)

\* handleKeyboard, the credentials view.
CredentialsView(key, c, s) ==
    LET value == s.form[fieldMap(c.currentField)]
    IN  IF key.name \in {kUp, <<"k">>}
        THEN Stay([s EXCEPT !.currentField = PrevField(@)])
        ELSE IF key.name \in {kDown, <<"j">>, kTab}
        THEN Stay([s EXCEPT !.currentField = NextField(@)])
        ELSE IF key.name = kReturn
        THEN IF FormAccepted(c.form)
             THEN Stay([s EXCEPT !.view = "confirm"])
             ELSE Stay(s)
        ELSE IF key.name = kEscape
        THEN Stay([s EXCEPT !.view = "menu", !.form = EmptyForm,
                            !.currentField = "url"])
        ELSE IF key.name = kBackspace
        THEN Stay([s EXCEPT !.form = WithField(@, c.currentField,
                                        SubSeq(value, 1, Len(value) - 1))])
        ELSE IF key.ctrl /\ key.name = <<"w">>
        THEN Stay([s EXCEPT !.form = WithField(@, c.currentField,
                                               DeleteWord(value))])
        ELSE IF key.ctrl /\ key.name = <<"u">>
        THEN Stay([s EXCEPT !.form = WithField(@, c.currentField, <<>>)])
        ELSE IF /\ Len(key.name) >= 1
                /\ ~key.ctrl /\ ~key.meta
                /\ key.name[1] # "f"
                /\ key.name \notin NonTextKeys
        THEN Stay([s EXCEPT !.form = WithField(@, c.currentField,
                                        value \o RemoveControl(key.name))])
        ELSE Stay(s)

\* Variant: the second operand, whatever the first.
MinUnbounded(a, b) == b

Min(a, b) == IF a < b THEN a ELSE b
Max(a, b) == IF a > b THEN a ELSE b

\* parseInt(key.name, 10) - 1 for the keys '1', '2', '3'
DigitIndex(name) ==
    CASE name = <<"1">> -> 0
      [] name = <<"2">> -> 1
      [] OTHER -> 2

\* handleKeyboard, the menu view.  Indices count from 0, as in the code.
MenuView(key, c, s) ==
    IF key.name \in {<<"q">>, <<"Q">>, kEscape}
    THEN Quit(s)
    ELSE IF key.name \in {kUp, <<"k">>}
    THEN Stay([s EXCEPT !.selectedIndex = Max(0, @ - 1)])
    ELSE IF key.name \in {kDown, <<"j">>}
    THEN Stay([s EXCEPT !.selectedIndex = Min(Len(tools) - 1, @ + 1)])
    ELSE IF key.name \in {<<"1">>, <<"2">>, <<"3">>}
    THEN IF DigitIndex(key.name) < Len(tools)
         THEN Stay([s EXCEPT !.selectedIndex = DigitIndex(key.name),
                             !.selectedTool = tools[DigitIndex(key.name) + 1],
                             !.view = "credentials"])
         ELSE Stay(s)
    ELSE IF key.name = kReturn
    THEN IF Len(tools) > 0
         THEN Stay([s EXCEPT !.selectedTool = tools[c.selectedIndex + 1],
                             !.view = "credentials"])
         ELSE Stay(s)
    ELSE Stay(s)

\* handleKeyboard(key): the branch is chosen by the view of the last render.
handleKeyboard(key, c, s, ok) ==
    IF c.view \in {"success", "error"} THEN ResultView(key, c, s)
    ELSE IF c.view = "confirm" THEN ConfirmView(key, c, s, ok)
    ELSE IF c.view = "credentials" THEN CredentialsView(key, c, s)
    ELSE IF c.view = "menu" THEN MenuView(key, c, s)
    ELSE Stay(s)

\* handlePaste(event)
handlePaste(text, c, s) ==
    LET cleanText == trim(RemoveControl(text))
    IN  IF c.view # "credentials" THEN s
        ELSE IF cleanText = <<>> THEN s
        ELSE [s EXCEPT !.form = WithField(@, c.currentField,
                            s.form[fieldMap(c.currentField)] \o cleanText)]

\* The event handled since the last render, with the state its handler read
\* (clo), the state its updates were applied to (pre) and the injectConfig
\* calls it made.
NoEvent == [kind |-> "none"]
AppOff ==
    /\ env = <<>>
    /\ tools = <<>>
    /\ st = <<>>
    /\ clo = <<>>
    /\ pending = 0
    /\ proc = "off"
    /\ edits = 0
    /\ ev = NoEvent
    /\ injections = <<>>

----------------------------------------------------------------------------
(* Inputs.                                                                 *)

CliInputs == {"claude-code", "claude-desktop", "copilot"}

Credentials ==
    {[baseUrl |-> "https://j.example.com", username |-> "u", password |-> "p"],
     [baseUrl |-> "https://jira.example.com", username |-> "bob", password |-> "x"]}

BatchCredentials ==
    [baseUrl |-> "https://j.example.com", username |-> "u", password |-> "p"]

Options(cli, scope, creds) ==
    [cli |-> cli, scope |-> scope, baseUrl |-> creds.baseUrl,
     username |-> creds.username, password |-> creds.password]

\* The config files of the modelled targets on this platform.
Locations(pf) ==
    {getConfigFileInfoOn(pf, c, s) : c \in CliInputs, s \in ConfigScope}
        \ {NullInfo}
Paths(pf) == {l.path : l \in Locations(pf)}

\* An entry left by an earlier setup with other credentials, and a
\* neighbour's entry.
OldEntry ==
    TreeOf(createJiraServerConfig(
        [baseUrl |-> "http://old.example.com", username |-> "old",
         password |-> "old"]))
Github == Obj([k \in {"command"} |-> Str("gh")])

WrapperTrees ==
    {Null, Str("x"), SArr(<<Str("a")>>), Obj(NoProps),
     Obj([k \in {"jira"} |-> Str("old")]),
     Obj([k \in {"github"} |-> Github]),
     Obj([k \in {"jira", "github"} |-> IF k = "jira" THEN OldEntry ELSE Github]),
     Obj([k \in {"jira", "github"} |-> IF k = "jira" THEN Null ELSE Lit("1e999")]),
     Obj([k \in {"github"} |-> Lit("1.0")])}
ThemeTrees == {Str("dark"), Lit("1e999")}

\* Top-level objects with or without a "theme" key and the wrapper key w.
ObjectTrees(w) ==
    {Obj(NoProps)}
    \cup {Obj([k \in {"theme"} |-> th]) : th \in ThemeTrees}
    \cup {Obj([k \in {w} |-> wr]) : wr \in WrapperTrees}
    \cup {Obj([k \in {"theme", w} |-> IF k = "theme" THEN th ELSE wr]) :
            th \in ThemeTrees, wr \in WrapperTrees}

\* What a config file may hold: a hand-written JSON text of any shape, an
\* empty file, a text cut short.
FileStates(w) ==
    {NoFile}
    \cup {File([fmt |-> "hand", syn |-> tr]) :
            tr \in ObjectTrees(w) \cup {SArr(<<Str("a")>>), Null, Str("x")}}
    \cup {File([fmt |-> "hand", syn |-> Garbage(g)]) : g \in {"", "{ \"theme\": "}}

PlainFileStates == {NoFile, File([fmt |-> "hand", syn |-> Obj(NoProps)])}

AlwaysThere == {home, cwd, <<"%APPDATA%">>}

AllAncestors(pf) == UNION {Ancestors(dirname(p)) : p \in Paths(pf)}

\* The machine before the first run: one of the config files may already
\* be there, and at most one directory or file is protected.  Only Claude
\* Desktop's location depends on the platform, so the other platforms are
\* explored with that file.
Init ==
    /\ platform \in Platforms
    /\ \E loc \in Locations(platform) :
        \E old \in FileStates(loc.wrapperKey) :
            /\ platform = "linux" \/ loc.path = ClaudeDesktopUserPath(platform)
            /\ files = [p \in Paths(platform) |-> IF p = loc.path THEN old ELSE NoFile]
            /\ dirs = AlwaysThere
                        \cup (IF old.exists THEN Ancestors(dirname(loc.path)) ELSE {})
            /\ \/ denyMkdir = {} /\ denyWrite = {}
               \/ /\ old \in PlainFileStates
                  /\ \/ /\ denyWrite = {}
                        /\ \E d \in AllAncestors(platform) \ AlwaysThere :
                              denyMkdir = {d}
                     \/ /\ denyMkdir = {}
                        /\ \E p \in Paths(platform) : denyWrite = {p}
    /\ hist = <<>>
    /\ batch = Idle
    /\ AppOff
    /\ CliOff
    /\ ServerOff

Disk == [files |-> files, dirs |-> dirs]

\* The setup command: one injectMcpConfig call of a process.
Setup(cli, scope, creds) ==
    /\ batch.status = "idle"
    /\ Len(hist) < MaxCalls
    /\ LET options == Options(cli, scope, creds)
           out == injectMcpConfig(options, Disk)
       IN  /\ files' = out.files
           /\ dirs' = out.dirs
           /\ hist' = Append(hist, [options |-> options, pre |-> Disk, out |-> out])
    /\ UNCHANGED <<envVars, batch, appVars, cliVars, serverVars>>

\* Sequences of distinct targets, as a selection set gives them.
Selections ==
    {sel \in UNION {[1..n -> CliInputs] : n \in 1..MaxBatch} :
        \A i, j \in DOMAIN sel : i # j => sel[i] # sel[j]}

\* The installer starts a batch over the selected targets.
BatchStart(sel, scope) ==
    /\ batch.status = "idle"
    /\ hist = <<>>
    /\ batch' = [status |-> "running", targets |-> sel, scope |-> scope,
                 creds |-> BatchCredentials, results |-> <<>>, pre |-> Disk]
    /\ UNCHANGED <<envVars, files, dirs, hist, appVars, cliVars, serverVars>>

\* The batch loop's body for the next target; an exception leaves the loop.
BatchStep ==
    /\ batch.status = "running"
    /\ Len(batch.results) < Len(batch.targets)
    /\ LET cli == batch.targets[Len(batch.results) + 1]
           out == injectMcpConfig(Options(cli, batch.scope, batch.creds), Disk)
       IN  IF out.threw
           THEN /\ batch' = [batch EXCEPT !.status = "aborted"]
                /\ UNCHANGED <<files, dirs>>
           ELSE /\ files' = out.files
                /\ dirs' = out.dirs
                /\ batch' = [batch EXCEPT
                                !.results = Append(@, InstallResult(cli, out))]
    /\ UNCHANGED <<envVars, hist, appVars, cliVars, serverVars>>

\* The loop ends and the results are handed to the view.
BatchFinish ==
    /\ batch.status = "running"
    /\ Len(batch.results) = Len(batch.targets)
    /\ batch' = [batch EXCEPT !.status = "done"]
    /\ UNCHANGED <<envVars, files, dirs, hist, appVars, cliVars, serverVars>>

Next ==
    \/ \E cli \in CliInputs, scope \in ConfigScope, creds \in Credentials :
          Setup(cli, scope, creds)
    \/ \E sel \in Selections, scope \in ConfigScope : BatchStart(sel, scope)
    \/ BatchStep
    \/ BatchFinish

Spec == Init /\ [][Next]_vars

----------------------------------------------------------------------------
(* The interactive session.                                                *)

ToolOrder == <<"claude-desktop", "claude-code", "opencode">>
ToolLists == {SubSeq(ToolOrder, 1, n) : n \in 0..MaxTools}

\* process.env.JIRA_MCP_URL: unset, the empty string, or a URL.
EnvUrls == {None, Some(<<>>), Some(<<"h", "t", "t", "p", ":", "/", "/", "j">>)}

\* A string of the environment, or undefined, used as a condition.
IsSet(v) == v # None /\ v[1] # <<>>

\* v || ''
OrEmpty(v) == IF IsSet(v) THEN v[1] ELSE <<>>

KeyInputs ==
    {Key(kReturn), Key(kEscape), Key(kUp), Key(kDown), Key(kTab),
     Key(kBackspace), CtrlKey(<<"w">>), CtrlKey(<<"u">>),
     Key(<<"k">>), Key(<<"y">>), Key(<<"f">>)}

\* The keys '1', '2', '3'.  Only the menu branch of handleKeyboard tells
\* them from the other characters, so they are pressed while the handler
\* is the menu's; elsewhere 'y' and 'f' stand for every character.
DigitKeys == {Key(<<"1">>), Key(<<"2">>), Key(<<"3">>)}

PasteInputs ==
    {<<"h", "t", "t", "p", ":", "/", "/", "j">>,
     <<" ", "\t", "y", " ">>,
     <<"\t", " ">>}

Snapshot(s) ==
    [view |-> s.view, selectedIndex |-> s.selectedIndex,
     selectedTool |-> s.selectedTool, form |-> s.form,
     currentField |-> s.currentField]

SetupOff ==
    /\ platform = "linux"
    /\ files = <<>>
    /\ dirs = {}
    /\ denyMkdir = {}
    /\ denyWrite = {}
    /\ hist = <<>>
    /\ batch = Idle

\* The two App components of the repository: the single-target installer
\* (part_007), whose tools state is detectTools() from the first render, and
\* the multi-target installer (scripts/tui/src/App.tsx), whose legacyTools
\* state starts empty and is filled by an asynchronous detection.
Apps == {"single", "multi"}

\* useState(() => ({ baseUrl: process.env.JIRA_MCP_URL || '', ... }))
InitialForm(url) ==
    [baseUrl |-> OrEmpty(url), username |-> <<>>, password |-> <<>>]

\* useState(() => process.env.JIRA_MCP_URL ? 'username' : 'url')
InitialFieldAlwaysUrl(url) == "url"

InitialField(url) == IF IsSet(url) THEN "username" ELSE "url"

\* useState initializers: the menu, nothing selected, the form pre-filled
\* from JIRA_MCP_URL.
InitApp ==
    /\ SetupOff
    /\ CliOff
    /\ ServerOff
    /\ env \in [app : Apps, detected : ToolLists, url : EnvUrls]
    /\ tools = IF env.app = "single" THEN env.detected ELSE <<>>
    /\ st = [view |-> "menu", selectedIndex |-> 0, selectedTool |-> NoTool,
             form |-> InitialForm(env.url),
             currentField |-> InitialField(env.url),
             result |-> NoResult]
    /\ clo = Snapshot(st)
    /\ pending = 0
    /\ proc = "mounting"
    /\ edits = 0
    /\ ev = NoEvent
    /\ injections = <<>>

\* The effects after the first render.  The multi-target App starts its
\* asynchronous detection, which has set no state when the next effect
\* runs; then either App exits when its tools state is empty.
Mount ==
    /\ proc = "mounting"
    /\ proc' = IF Len(tools) = 0 THEN "exit1" ELSE "running"
    /\ UNCHANGED <<setupVars, cliVars, serverVars, env, tools, st, clo, pending, edits, ev, injections>>

\* A key event reaches the handler of the last render.
KeyPress(key, ok) ==
    /\ proc = "running"
    /\ pending < MaxPending
    /\ LET out == handleKeyboard(key, clo, st, ok)
           edited == out.st.form # st.form
       IN  /\ edited => edits < MaxEdits
           /\ Len(injections) + Len(out.injected) <= MaxInjections
           /\ st' = out.st
           /\ proc' = out.proc
           /\ injections' = injections \o out.injected
           /\ edits' = IF edited THEN edits + 1 ELSE edits
           /\ ev' = [kind |-> "key", key |-> key, text |-> <<>>,
                     clo |-> clo, pre |-> st, injected |-> out.injected]
    /\ pending' = pending + 1
    /\ UNCHANGED <<setupVars, cliVars, serverVars, env, tools, clo>>

\* A paste event reaches the paste listener of the last render.
Paste(text) ==
    /\ proc = "running"
    /\ pending < MaxPending
    /\ LET new == handlePaste(text, clo, st)
           edited == new.form # st.form
       IN  /\ edited => edits < MaxEdits
           /\ st' = new
           /\ edits' = IF edited THEN edits + 1 ELSE edits
           /\ ev' = [kind |-> "paste", key |-> Key(<<>>), text |-> text,
                     clo |-> clo, pre |-> st, injected |-> <<>>]
    /\ pending' = pending + 1
    /\ UNCHANGED <<setupVars, cliVars, serverVars, env, tools, clo, proc, injections>>

\* React renders with the queued updates: the handlers now read this state.
Render ==
    /\ proc = "running"
    /\ pending > 0
    /\ clo' = Snapshot(st)
    /\ pending' = 0
    /\ ev' = NoEvent
    /\ UNCHANGED <<setupVars, cliVars, serverVars, env, tools, st, proc, edits, injections>>

NextApp ==
    \/ Mount
    \/ \E key \in KeyInputs, ok \in BOOLEAN : KeyPress(key, ok)
    \/ \E key \in DigitKeys : clo.view = "menu" /\ KeyPress(key, TRUE)
    \/ \E text \in PasteInputs : Paste(text)
    \/ Render

SpecApp == InitApp /\ [][NextApp]_vars

----------------------------------------------------------------------------
(* The setup command on its command line.                                  *)

\* The identifiers of the README's Supported CLI Tools table.
ReadmeClis == SupportedCli \cup {"antigravity"}

\* Flags with and without their value.
ArgPieces ==
    {<<"-c", "claude-code">>, <<"--cli">>,
     <<"-b", "https://j.example.com">>, <<"--username", "u">>,
     <<"-p", "p">>, <<"-s", "project">>, <<"--scope", "team">>, <<"-s">>}

RECURSIVE Flatten(_)
Flatten(pieces) ==
    IF pieces = <<>> THEN <<>> ELSE Head(pieces) \o Flatten(Tail(pieces))

\* The command line begins with nothing or with the target, on a machine
\* with no config file yet.
InitArgs ==
    /\ platform = "linux"
    /\ files = <<>>
    /\ dirs = AlwaysThere
    /\ denyMkdir = {}
    /\ denyWrite = {}
    /\ hist = <<>>
    /\ batch = Idle
    /\ AppOff
    /\ argv \in {<<>>} \cup {<<<<"-c", c>>>> : c \in ReadmeClis}
    /\ cmd = NotRun
    /\ ServerOff

\* One more flag on the command line.
AddArgs(piece) ==
    /\ cmd = NotRun
    /\ Len(argv) <= MaxArgs
    /\ argv' = Append(argv, piece)
    /\ UNCHANGED <<setupVars, appVars, serverVars, cmd>>

\* The command runs.
SetupCommand ==
    /\ cmd = NotRun
    /\ LET args == Flatten(argv)
           run == RunSetup(args, Disk)
       IN  /\ cmd' = [args |-> args, parsed |-> parseSetupArgs(args),
                      exit |-> run.exit, injected |-> run.injected,
                      message |-> run.message]
           /\ files' = run.files
           /\ dirs' = run.dirs
    /\ UNCHANGED <<envVars, hist, batch, appVars, serverVars, argv>>

NextArgs ==
    \/ \E piece \in ArgPieces : AddArgs(piece)
    \/ SetupCommand

SpecArgs == InitArgs /\ [][NextArgs]_vars

----------------------------------------------------------------------------
(* src/src/index.ts, runMcpServer: the call_tool handler.                  *)

\* The tools of allToolHandlers that are modelled.
Registered == {"jira_search", "jira_list_projects"}

\* The functions an object literal inherits from Object.prototype.
PrototypeFunctions == {"toString", "constructor", "hasOwnProperty", "valueOf"}

\* allToolHandlers[name]: an own property, or what the object literal
\* inherits; __proto__ is the prototype object itself.
allToolHandlers(name) ==
    IF name \in Registered THEN [is |-> "handler", name |-> name]
    ELSE IF name \in PrototypeFunctions THEN [is |-> "inherited", name |-> name]
    ELSE IF name = "__proto__" THEN [is |-> "object", name |-> name]
    ELSE [is |-> "undefined", name |-> name]

\* What a call gives: a value or an exception, and the calls it made on
\* the Jira client before.
NoError == [class |-> "", message |-> <<>>, statusCode |-> "", body |-> Undefined]
NoValue == [shape |-> "none", content |-> <<>>, hasIsError |-> FALSE]
Return(value, sent) ==
    [threw |-> FALSE, value |-> value, error |-> NoError, sent |-> sent]
Throw(error, sent) ==
    [threw |-> TRUE, value |-> NoValue, error |-> error, sent |-> sent]

ErrorOf(class, message) ==
    [class |-> class, message |-> message, statusCode |-> "", body |-> Undefined]
JiraApiError(message, statusCode, body) ==
    [class |-> "JiraApiError", message |-> message, statusCode |-> statusCode,
     body |-> body]

\* { content: [{ type: 'text', text }] }
TextContent(text) ==
    [shape |-> "tool", content |-> <<[type |-> "text", text |-> text]>>,
     hasIsError |-> FALSE]

\* What the Jira client does with a call: it returns data, or throws a
\* JiraApiError, or throws another error.
ClientOutcome(client, sent) ==
    IF client.does = "returns"
    THEN Return(TextContent(JSONstringify(client.data)), sent)
    ELSE Throw(client.error, sent)

\* jira_search: the arguments' properties are handed to client.search.
jira_search(args, client) ==
    IF IsThrow(GetProp(args, "jql"))
    THEN Throw(ErrorOf("TypeError", <<"Cannot read properties of undefined">>),
               <<>>)
    ELSE ClientOutcome(client,
            <<[method |-> "search",
               jql |-> GetProp(args, "jql"),
               maxResults |-> GetProp(args, "maxResults"),
               startAt |-> GetProp(args, "startAt"),
               fields |-> GetProp(args, "fields")]>>)

\* jira_list_projects: no argument is read.
jira_list_projects(client) ==
    ClientOutcome(client,
        <<[method |-> "getProjects", jql |-> Undefined, maxResults |-> Undefined,
           startAt |-> Undefined, fields |-> Undefined]>>)

\* handler(args) for what allToolHandlers[name] gave.  An inherited
\* function is called without a receiver: toString answers for undefined,
\* Object (constructor) answers with an object, the others throw; the
\* prototype object is not callable.
CallHandler(handler, args, client) ==
    CASE handler.is = "handler" ->
            IF handler.name = "jira_search"
            THEN jira_search(args, client)
            ELSE jira_list_projects(client)
      [] handler.is = "inherited" ->
            IF handler.name = "toString"
            THEN Return([shape |-> "string", content |-> <<>>,
                         hasIsError |-> FALSE], <<>>)
            ELSE IF handler.name = "constructor"
            THEN Return([shape |-> "object", content |-> <<>>,
                         hasIsError |-> FALSE], <<>>)
            ELSE Throw(ErrorOf("TypeError",
                        <<"Cannot convert undefined or null to object">>), <<>>)
      [] OTHER ->
            Throw(ErrorOf("TypeError", <<"handler is not a function">>), <<>>)

\* The response built from a JiraApiError.
ErrorResponse(error) ==
    [shape |-> "tool",
     content |-> <<[type |-> "text",
                    text |-> JSONstringify(Obj(
                        [error |-> Bool(TRUE),
                         message |-> Str(error.message),
                         statusCode |-> Num(error.statusCode),
                         details |-> error.body]))]>>,
     hasIsError |-> TRUE]

\* The call_tool request handler.
CallTool(name, args, client) ==
    LET handler == allToolHandlers(name)
    IN  IF handler.is = "undefined"
        THEN Throw(ErrorOf("Error", <<"Unknown tool: ", name>>), <<>>)
        ELSE LET out == CallHandler(handler, args, client)
             IN  IF out.threw /\ out.error.class = "JiraApiError"
                 THEN Return(ErrorResponse(out.error), out.sent)
                 ELSE out

\* The requests of the model: tool names that are registered, unknown, or
\* names of Object.prototype; arguments with and without the optional
\* numbers; a client that answers, refuses or fails.
ToolNames == Registered \cup PrototypeFunctions \cup {"__proto__", "jira_nope"}

MaxResultsInputs ==
    {Undefined, Num("1"), Num("50"), Num("100"), Num("0"), Num("500"),
     Num("2.5")}
StartAtInputs == {Undefined, Num("0"), Num("10"), Num("-1")}

SearchArguments ==
    {Obj([jql |-> Str("project = X"), maxResults |-> m, startAt |-> a]) :
        m \in MaxResultsInputs, a \in StartAtInputs}

ArgumentInputs == {Undefined} \cup SearchArguments

ClientBehaviours ==
    {[does |-> "returns", data |-> Obj([total |-> Num("0")]), error |-> NoError]}
    \cup {[does |-> "throws", data |-> Undefined,
           error |-> JiraApiError(<<"Jira API error: ", code>>, code, body)] :
            code \in {"400", "404"}, body \in {Undefined, Str("no such issue")}}
    \cup {[does |-> "throws", data |-> Undefined,
           error |-> ErrorOf("TypeError", <<"fetch failed">>)]}

InitServer ==
    /\ SetupOff
    /\ AppOff
    /\ CliOff
    /\ ServerOff

\* One call_tool request is handled.
HandleCallTool(name, args, client) ==
    /\ rpc' = [name |-> name, args |-> args, client |-> client,
               out |-> CallTool(name, args, client)]
    /\ UNCHANGED <<setupVars, appVars, cliVars>>

NextServer ==
    \E name \in ToolNames, args \in ArgumentInputs, client \in ClientBehaviours :
        HandleCallTool(name, args, client)

SpecServer == InitServer /\ [][NextServer]_vars

----------------------------------------------------------------------------
(* Properties of the setup command's injection.                            *)

Range(seq) == {seq[i] : i \in DOMAIN seq}

\* The location, the file before and after, and their parsed contents, of
\* a recorded call.
InfoOf(r) == getConfigFileInfo(r.options.cli, r.options.scope)
Resolved(r) == ~IsNullInfo(InfoOf(r))
Before(r) == FileAt(r.pre, InfoOf(r).path)
After(r) == FileAt(r.out, InfoOf(r).path)
Succeeded(r) == ~r.out.threw /\ r.out.ret.success
ParsedBefore(r) == JSONparse(Before(r).text)
ParsedAfter(r) == JSONparse(After(r).text)

\* The disk lets the call create the directory and write the file.
Writable(r) ==
    /\ InfoOf(r).path \notin denyWrite
    /\ (Ancestors(dirname(InfoOf(r).path)) \ r.pre.dirs) \cap denyMkdir = {}

\* The entry the setup command is documented to write.
StandardEntry(b, u, p) ==
    Obj([command |-> Str("npx"),
         args |-> Arr(<<Str("-y"), Str("@lvmk/jira-mcp")>>),
         env |-> Obj([JIRA_BASE_URL |-> Str(b), JIRA_USERNAME |-> Str(u),
                      JIRA_PASSWORD |-> Str(p)])])

\* C1: when the target's config file exists and its content is not valid
\* JSON, injectMcpConfig returns success = false and leaves the file's
\* content as it was.
C1_ParseFailureLeavesFile ==
    \A i \in DOMAIN hist :
        LET r == hist[i]
        IN  (Resolved(r) /\ Before(r).exists /\ IsThrow(ParsedBefore(r)))
                => (~Succeeded(r) /\ After(r) = Before(r))

\* A value that JSON.stringify followed by JSON.parse gives back unchanged.
RoundTrips(v) == ValueOf(TreeOf(v)) = v

\* The top-level keys beside the wrapper key, and the wrapper's entries
\* beside the server key, of an object config, are after the call what
\* they were before it, for those among them that satisfy Kept.
PreservedWhere(r, Kept(_)) ==
    LET info == InfoOf(r)
        old == ParsedBefore(r)
        new == ParsedAfter(r)
        oldWrapper == GetProp(old, info.wrapperKey)
        newWrapper == GetProp(new, info.wrapperKey)
    IN  /\ new.t = "obj"
        /\ \A k \in DOMAIN old.o \ {info.wrapperKey} :
              Kept(old.o[k]) => (k \in DOMAIN new.o /\ new.o[k] = old.o[k])
        /\ oldWrapper.t = "obj" =>
              /\ newWrapper.t = "obj"
              /\ \A e \in DOMAIN oldWrapper.o \ {info.serverKey} :
                    Kept(oldWrapper.o[e]) =>
                        (e \in DOMAIN newWrapper.o
                            /\ newWrapper.o[e] = oldWrapper.o[e])

ObjectConfigCall(r) ==
    /\ Resolved(r)
    /\ Before(r).exists
    /\ ~IsThrow(ParsedBefore(r))
    /\ ParsedBefore(r).t = "obj"
    /\ Succeeded(r)

AnyValue(v) == TRUE

\* C2: a successful injectMcpConfig on a file that parses to an
\* object leaves every top-level key other than the wrapper key, and every
\* entry of the wrapper map other than 'jira', with the value it had.
C2_EveryOtherKeyKept ==
    \A i \in DOMAIN hist :
        ObjectConfigCall(hist[i]) => PreservedWhere(hist[i], AnyValue)

\* What does hold: the same, for the keys and entries whose value is given
\* back unchanged by JSON.stringify and JSON.parse (a number literal beyond
\* the range of a double is read as Infinity and written back as null).
RoundTrippingKeysKept ==
    \A i \in DOMAIN hist :
        ObjectConfigCall(hist[i]) => PreservedWhere(hist[i], RoundTrips)

\* Two runs in a row with the same cli, scope and credentials, both
\* reporting success.
RanTwice(i) ==
    /\ i > 1
    /\ hist[i].options = hist[i - 1].options
    /\ Succeeded(hist[i - 1])
    /\ Succeeded(hist[i])

\* C3: after two successful runs in a row with the same cli, scope and
\* credentials, the file's parsed content is the parsed content after the
\* first run, and the wrapper map has the key set it had after the first
\* run, with the 'jira' entry in it.
C3_SecondRunChangesNothing ==
    \A i \in DOMAIN hist :
        RanTwice(i) =>
           /\ ParsedAfter(hist[i]) = ParsedAfter(hist[i - 1])
           /\ LET w == GetProp(ParsedAfter(hist[i]), InfoOf(hist[i]).wrapperKey)
                  w1 == GetProp(ParsedAfter(hist[i - 1]), InfoOf(hist[i]).wrapperKey)
              IN  /\ w.t = "obj"
                  /\ w1.t = "obj"
                  /\ DOMAIN w.o = DOMAIN w1.o
                  /\ InfoOf(hist[i]).serverKey \in DOMAIN w.o

\* What does hold: the second run leaves the parsed content of the first.
SecondRunSameContent ==
    \A i \in DOMAIN hist :
        RanTwice(i) => ParsedAfter(hist[i]) = ParsedAfter(hist[i - 1])

\* C4: when getConfigFileInfo returns null for the cli and scope, as it
\* does for claude-desktop with project scope, injectMcpConfig returns success = false with a message that names the
\* cli and the scope, and performs no file-system operation: no file or
\* directory is read, created or written.
C4_UnsupportedScopeTouchesNothing ==
    \A i \in DOMAIN hist :
        LET r == hist[i]
        IN  (~Resolved(r)
                \/ (r.options.cli = "claude-desktop" /\ r.options.scope = "project"))
            =>  /\ ~r.out.threw
                /\ ~r.out.ret.success
                /\ r.options.cli \in Range(r.out.ret.message)
                /\ r.options.scope \in Range(r.out.ret.message)
                /\ r.out.ops = <<>>
                /\ r.out.files = r.pre.files
                /\ r.out.dirs = r.pre.dirs

\* Claude Desktop was set up with project scope.
C4_Witness ==
    \E i \in DOMAIN hist :
        /\ hist[i].options.cli = "claude-desktop"
        /\ hist[i].options.scope = "project"
        /\ ~hist[i].out.ret.success

\* An absent file, a file of zero bytes, a file holding {}.
EmptyOrAbsent(f) ==
    \/ ~f.exists
    \/ f.text.syn = Garbage("")
    \/ f.text.syn = Obj(NoProps)

HoldsEntry(r) ==
    /\ Resolved(r)
    /\ Before(r).exists
    /\ ~IsThrow(ParsedBefore(r))
    /\ ParsedBefore(r).t = "obj"
    /\ LET w == GetProp(ParsedBefore(r), InfoOf(r).wrapperKey)
       IN  w.t = "obj" /\ InfoOf(r).serverKey \in DOMAIN w.o

\* C6: when the wrapper map already holds a 'jira' entry, on a disk that
\* lets the file be written, injectMcpConfig returns success = true and
\* the entry afterwards is the standard entry built from the supplied
\* credentials, whatever the old entry was.
C6_ExistingEntryReplaced ==
    \A i \in DOMAIN hist :
        LET r == hist[i]
        IN  (HoldsEntry(r) /\ Writable(r)) =>
                /\ Succeeded(r)
                /\ GetProp(GetProp(ParsedAfter(r), InfoOf(r).wrapperKey),
                           InfoOf(r).serverKey)
                     = StandardEntry(r.options.baseUrl, r.options.username,
                                     r.options.password)

\* A call replaced an entry whose value was not the standard entry of any
\* credentials.
C6_Witness ==
    \E i \in DOMAIN hist :
        /\ HoldsEntry(hist[i])
        /\ GetProp(GetProp(ParsedBefore(hist[i]), InfoOf(hist[i]).wrapperKey),
                   "jira") = Str("old")
        /\ Succeeded(hist[i])

\* The directory of the call's file is missing and may not be created.
MkdirDenied(r) ==
    /\ Resolved(r)
    /\ (Ancestors(dirname(InfoOf(r).path)) \ r.pre.dirs) \cap denyMkdir # {}

WriteDenied(r) == Resolved(r) /\ InfoOf(r).path \in denyWrite

AloneResult(i) ==
    InstallResult(batch.targets[i],
        injectMcpConfig(Options(batch.targets[i], batch.scope, batch.creds),
                        batch.pre))

----------------------------------------------------------------------------
(* Properties of the interactive session.                                  *)

HasPrefix(text, prefix) ==
    Len(text) >= Len(prefix) /\ SubSeq(text, 1, Len(prefix)) = prefix

\* Three non-empty fields and a baseUrl beginning with http:// or https://.
Complete(form) ==
    /\ form.baseUrl # <<>>
    /\ form.username # <<>>
    /\ form.password # <<>>
    /\ \/ HasPrefix(form.baseUrl, <<"h", "t", "t", "p", ":", "/", "/">>)
       \/ HasPrefix(form.baseUrl, <<"h", "t", "t", "p", "s", ":", "/", "/">>)

EnterPressed == ev.kind = "key" /\ ev.key = Key(kReturn)

\* C9: when Enter is pressed while the session's view is credentials, the
\* view becomes confirm if and only if the session's form holds three
\* non-empty fields and a URL-like baseUrl; otherwise the view is still
\* credentials; and the form is what it was before the key.
C9_EnterPassesOnlyCompleteForm ==
    (EnterPressed /\ ev.pre.view = "credentials") =>
        /\ st.view = "confirm" <=> Complete(ev.pre.form)
        /\ ~Complete(ev.pre.form) => st.view = "credentials"
        /\ st.form = ev.pre.form

\* The same statement for an Enter whose handler was created by a render of
\* the state the key meets.
C9_EnterAfterRender ==
    (EnterPressed /\ ev.pre.view = "credentials" /\ Snapshot(ev.pre) = clo) =>
        /\ st.view = "confirm" <=> Complete(ev.pre.form)
        /\ ~Complete(ev.pre.form) => st.view = "credentials"
        /\ st.form = ev.pre.form

\* C10: whenever the view is confirm, success or error the form holds three
\* non-empty fields and a URL-like baseUrl, and every form handed to
\* injectConfig does.
C10_LateViewsHoldCompleteForm ==
    /\ st.view \in {"confirm", "success", "error"} => Complete(st.form)
    /\ \A i \in DOMAIN injections : Complete(injections[i].form)

\* The part of C10 about injectConfig alone.
C10_InjectedFormsComplete ==
    \A i \in DOMAIN injections : Complete(injections[i].form)

KeyHandled == ev.kind = "key"

\* The handler of the event was created by a render of the state the event
\* met.
HandlerUpToDate == Snapshot(ev.pre) = clo

YesKeys == {<<"y">>, <<"Y">>}
QuitKeys == {<<"q">>, <<"Q">>, kEscape}

\* C11: an input event calls injectConfig only if it is a y or Y key and
\* the session's view is confirm when the key arrives; no key met by the
\* menu, credentials or result views, and no paste, calls it.
C11_InjectionOnlyByYesInConfirm ==
    (ev.kind # "none" /\ ev.injected # <<>>) =>
        /\ KeyHandled
        /\ ev.key.name \in YesKeys
        /\ ev.pre.view = "confirm"

\* What does hold: the event that calls injectConfig is a y or Y key handled
\* by the handler of a render whose view was confirm.
InjectionOnlyByConfirmHandler ==
    (ev.kind # "none" /\ ev.injected # <<>>) =>
        /\ KeyHandled
        /\ ev.key.name \in YesKeys
        /\ clo.view = "confirm"

\* C14: a key that arrives while the session's view is success or error
\* ends the process with code 0 if it is q, Q or escape, and otherwise
\* leaves view, form, selection and result as they were.
C14_ResultViewsOnlyQuit ==
    (KeyHandled /\ ev.pre.view \in {"success", "error"}) =>
        IF ev.key.name \in QuitKeys
        THEN proc = "exit0"
        ELSE proc = "running" /\ st = ev.pre /\ ev.injected = <<>>

\* What does hold: the same for a key whose handler is up to date.
ResultViewsOnlyQuitAfterRender ==
    (KeyHandled /\ ev.pre.view \in {"success", "error"} /\ HandlerUpToDate) =>
        IF ev.key.name \in QuitKeys
        THEN proc = "exit0"
        ELSE proc = "running" /\ st = ev.pre /\ ev.injected = <<>>

\* C15: after escape arrives while the session's view is credentials, the
\* view is menu, the three fields are empty and the focused field is url.
C15_EscapeClearsForm ==
    (KeyHandled /\ ev.key = Key(kEscape) /\ ev.pre.view = "credentials") =>
        /\ proc = "running"
        /\ st.view = "menu"
        /\ st.form = EmptyForm
        /\ st.currentField = "url"

\* What does hold: the same for an escape whose handler is up to date.
EscapeClearsFormAfterRender ==
    (KeyHandled /\ ev.key = Key(kEscape) /\ ev.pre.view = "credentials"
        /\ HandlerUpToDate) =>
        /\ proc = "running"
        /\ st.view = "menu"
        /\ st.form = EmptyForm
        /\ st.currentField = "url"

\* A key of one printable character without ctrl or meta.
CharacterKey(key) ==
    /\ Len(key.name) = 1
    /\ key.name[1] \notin ControlChars
    /\ ~key.ctrl
    /\ ~key.meta

\* C16: a key of one printable character without ctrl or meta that
\* arrives in the credentials view, handled by an up-to-date handler,
\* appends that character to the focused field and changes nothing else.
C16_CharacterKeyAppends ==
    (KeyHandled /\ CharacterKey(ev.key) /\ ev.pre.view = "credentials"
        /\ HandlerUpToDate) =>
        st = [ev.pre EXCEPT
                !.form = WithField(@, ev.pre.currentField,
                            ev.pre.form[fieldMap(ev.pre.currentField)]
                                \o ev.key.name)]

----------------------------------------------------------------------------
(* Properties of the setup command's command line.                         *)

Flags ==
    {"-c", "--cli", "-b", "--base-url", "--url", "-u", "--username",
     "-p", "--password", "-s", "--scope"}

\* The last argument is a flag, which therefore has no value.
FlagWithoutValue(args) == args # <<>> /\ args[Len(args)] \in Flags

NonEmpty(opt) == opt # None /\ opt[1] # ""

HasScopeFlag(args) == \E i \in DOMAIN args : args[i] \in {"-s", "--scope"}

ParsedOptionsWellFormedUnlessScopeLast ==
    (cmd # NotRun /\ ~(cmd.args # <<>> /\ cmd.args[Len(cmd.args)] \in {"-s", "--scope"})) =>
        /\ ~IsNullOptions(cmd.parsed) =>
              /\ NonEmpty(cmd.parsed.cli)
              /\ cmd.parsed.cli[1] \in SupportedCli
              /\ NonEmpty(cmd.parsed.baseUrl)
              /\ NonEmpty(cmd.parsed.username)
              /\ NonEmpty(cmd.parsed.password)
              /\ cmd.parsed.scope \in {Some("user"), Some("project")}
              /\ ~HasScopeFlag(cmd.args) => cmd.parsed.scope = Some("user")
        /\ FlagWithoutValue(cmd.args) => IsNullOptions(cmd.parsed)

\* The command line names a CLI of the README, then the URL, the username
\* and the password in some order, and nothing else.
ReadmeCommand ==
    /\ cmd # NotRun
    /\ Len(argv) = 4
    /\ \E c \in ReadmeClis : argv[1] = <<"-c", c>>
    /\ {argv[2], argv[3], argv[4]}
         = {<<"-b", "https://j.example.com">>, <<"--username", "u">>,
            <<"-p", "p">>}

\* Some file holds a map with a 'jira' entry whose command is 'npx'.
JiraEntryWritten ==
    \E path \in DOMAIN files :
        /\ files[path].exists
        /\ LET parsed == JSONparse(files[path].text)
           IN  /\ parsed.t = "obj"
               /\ \E w \in DOMAIN parsed.o :
                     /\ parsed.o[w].t = "obj"
                     /\ "jira" \in DOMAIN parsed.o[w].o
                     /\ GetProp(parsed.o[w].o["jira"], "command") = Str("npx")

\* C19: the setup command run for a CLI the README lists, with valid
\* credentials and user scope, ends with code 0, reports 'Successfully
\* configured' and writes a 'jira' entry with command 'npx'.
C19_ReadmeClisAccepted ==
    ReadmeCommand =>
        /\ cmd.exit = 0
        /\ cmd.message # <<>>
        /\ cmd.message[1] = "Successfully configured Jira MCP for "
        /\ JiraEntryWritten

\* What does hold: the same for the identifiers of the SupportedCli type.
SupportedClisAccepted ==
    (ReadmeCommand /\ argv[1][2] \in SupportedCli) =>
        /\ cmd.exit = 0
        /\ cmd.message # <<>>
        /\ cmd.message[1] = "Successfully configured Jira MCP for "
        /\ JiraEntryWritten

\* C20: on every platform, getConfigFileInfo returns null for exactly one
\* pair of a supported CLI and a scope, claude-desktop with project; every
\* supported CLI has a location for user scope.
C20_OnlyClaudeDesktopProjectUnsupported ==
    /\ \A c \in SupportedCli, s \in ConfigScope :
          IsNullInfo(getConfigFileInfo(c, s))
              <=> (c = "claude-desktop" /\ s = "project")
    /\ \A i \in DOMAIN hist :
          Resolved(hist[i]) <=>
              ~(hist[i].options.cli = "claude-desktop"
                    /\ hist[i].options.scope = "project")

\* On macOS, Claude Desktop was set up with user scope in its Library
\* folder, and then refused for project scope.
C20_Witness ==
    /\ platform = "darwin"
    /\ Len(hist) = 2
    /\ hist[1].options.cli = "claude-desktop"
    /\ hist[1].options.scope = "user"
    /\ Succeeded(hist[1])
    /\ InfoOf(hist[1]).path[2] = "Library"
    /\ hist[2].options.cli = "claude-desktop"
    /\ hist[2].options.scope = "project"
    /\ ~Resolved(hist[2])

----------------------------------------------------------------------------
(* Properties of the session's start.                                      *)

\* C12: the installer ends with a non-zero code at startup only when the
\* detection found no tool; with at least one tool found the exit of 'No
\* supported AI tools detected' is not taken and the menu is shown.
C12_ExitOnlyWithoutTools ==
    /\ proc = "exit1" => Len(env.detected) = 0
    /\ (Len(env.detected) > 0 /\ proc # "mounting" /\ ev = NoEvent
            /\ pending = 0 /\ edits = 0 /\ injections = <<>>
            /\ st.selectedTool = NoTool)
         => (proc = "running" /\ st.view = "menu")

\* What does hold: the same for the single-target installer, whose tools
\* state holds the detection's result from the first render.
SingleTargetExitOnlyWithoutTools ==
    env.app = "single" =>
        /\ proc = "exit1" => Len(env.detected) = 0
        /\ (Len(env.detected) > 0 /\ proc # "mounting" /\ ev = NoEvent
                /\ pending = 0 /\ edits = 0 /\ injections = <<>>
                /\ st.selectedTool = NoTool)
             => (proc = "running" /\ st.view = "menu")

\* The multi-target installer ends with code 1 after its first render,
\* whatever the detection finds.
MultiTargetAlwaysExits ==
    env.app = "multi" => proc \in {"mounting", "exit1"}

\* C13: in the multi-target installer, a detected target without project
\* scope (claude-desktop) does not stop the session: the views after the
\* menu (scope-select with its validation results, then confirm) can be
\* reached, so the session is not ended by the effects of the first render.
C13_ScopeValidationReachable ==
    (env.app = "multi" /\ Len(env.detected) > 0
        /\ env.detected[1] = "claude-desktop")
      => proc # "exit1"

\* The form and the focused field are those of the session's start.
AsAtStart ==
    /\ st.form.baseUrl = (IF env.url = None THEN <<>> ELSE env.url[1])
    /\ st.form.username = <<>>
    /\ st.form.password = <<>>
    /\ st.currentField
         = (IF env.url \in {None, Some(<<>>)} THEN "url" ELSE "username")

\* C17: at the session's start, until a tool is chosen in the menu, and when
\* the credentials view is entered for the first time, a non-empty
\* JIRA_MCP_URL is the form's baseUrl and the focused field is username;
\* with JIRA_MCP_URL unset or empty the baseUrl is empty and the focused
\* field is url; username and password are empty.
C17_FormPrefilledFromEnvironment ==
    /\ proc = "mounting" => AsAtStart
    /\ st.selectedTool = NoTool => AsAtStart
    /\ (ev.kind = "key" /\ ev.pre.selectedTool = NoTool
            /\ st.view = "credentials")
         => AsAtStart

\* The pre-filled URL was edited: the credentials view opened with the
\* focus on username, the focus was moved to the url field and a character
\* of the pre-filled value was deleted.
C17_Witness ==
    /\ IsSet(env.url)
    /\ st.selectedTool # NoTool
    /\ st.view = "credentials"
    /\ st.currentField = "url"
    /\ st.form.baseUrl # env.url[1]
    /\ HasPrefix(env.url[1], st.form.baseUrl)
    /\ st.form.baseUrl # <<>>

----------------------------------------------------------------------------
(* Properties of the targets' files.                                       *)

\* C27: for a fixed scope, two distinct supported CLIs that have a config
\* location have distinct paths, and a call of injectMcpConfig for one
\* target leaves the file of every other target of the same scope as it
\* was.
C27_DistinctTargetsDistinctFiles ==
    /\ \A s \in ConfigScope, c1, c2 \in SupportedCli :
          LET i1 == getConfigFileInfo(c1, s)
              i2 == getConfigFileInfo(c2, s)
          IN  (c1 # c2 /\ ~IsNullInfo(i1) /\ ~IsNullInfo(i2))
                  => i1.path # i2.path
    /\ \A i \in DOMAIN hist :
          \A c2 \in SupportedCli \ {hist[i].options.cli} :
              LET other == getConfigFileInfo(c2, hist[i].options.scope)
              IN  ~IsNullInfo(other) =>
                      FileAt(hist[i].out, other.path)
                          = FileAt(hist[i].pre, other.path)

\* Two targets were set up with the same scope, one after the other: both
\* files are there, and the second call left the first one's file alone.
C27_Witness ==
    /\ Len(hist) = 2
    /\ hist[1].options.cli # hist[2].options.cli
    /\ hist[1].options.scope = hist[2].options.scope
    /\ Succeeded(hist[1])
    /\ Succeeded(hist[2])
    /\ After(hist[1]).exists
    /\ FileAt(hist[2].out, InfoOf(hist[1]).path) = After(hist[1])
    /\ After(hist[2]).exists

\* The file after the call parses to an object whose wrapper map holds the
\* 'jira' entry built from the call's credentials.
EntryOnDisk(r) ==
    /\ After(r).exists
    /\ ~IsThrow(ParsedAfter(r))
    /\ ParsedAfter(r).t = "obj"
    /\ LET w == GetProp(ParsedAfter(r), InfoOf(r).wrapperKey)
       IN  /\ w.t = "obj"
           /\ InfoOf(r).serverKey \in DOMAIN w.o
           /\ w.o[InfoOf(r).serverKey]
                = StandardEntry(r.options.baseUrl, r.options.username,
                                r.options.password)

\* C28: whenever injectMcpConfig returns success = true, the config file
\* parses to an object whose wrapper map holds the 'jira' entry with the
\* supplied credentials, whatever valid JSON the file held before.
C28_SuccessMeansEntryOnDisk ==
    \A i \in DOMAIN hist : Succeeded(hist[i]) => EntryOnDisk(hist[i])

\* The file before the call is absent or parses to an object whose wrapper
\* key is absent, falsy or an object.
PlainConfigBefore(r) ==
    \/ ~Before(r).exists
    \/ /\ ~IsThrow(ParsedBefore(r))
       /\ ParsedBefore(r).t = "obj"
       /\ LET w == GetProp(ParsedBefore(r), InfoOf(r).wrapperKey)
          IN  ~Truthy(w) \/ w.t = "obj"

\* What does hold: the same for the calls that met such a file.
SuccessMeansEntryOnPlainConfig ==
    \A i \in DOMAIN hist :
        (Succeeded(hist[i]) /\ PlainConfigBefore(hist[i]))
            => EntryOnDisk(hist[i])

----------------------------------------------------------------------------
(* Properties of the server's call_tool handler.                           *)

Handled == rpc # NoRequest

\* What the handler found under the request's name gave for the request.
HandlerOutcome == CallHandler(allToolHandlers(rpc.name), rpc.args, rpc.client)

UnknownToolError(name) == ErrorOf("Error", <<"Unknown tool: ", name>>)

\* The response is a normal one with isError = true whose text carries the
\* error's message, status code and body.
AnswersWithError(error) ==
    /\ ~rpc.out.threw
    /\ rpc.out.value.shape = "tool"
    /\ rpc.out.value.hasIsError
    /\ Len(rpc.out.value.content) = 1
    /\ LET parsed == JSONparse(rpc.out.value.content[1].text)
       IN  /\ GetProp(parsed, "message") = Str(error.message)
           /\ GetProp(parsed, "statusCode") = Num(error.statusCode)
           /\ GetProp(parsed, "details") = error.body

\* C21: a request that names a tool with no registered handler fails with
\* the 'Unknown tool' error; a JiraApiError raised by a registered handler
\* is answered by a normal response with isError = true that carries the
\* message, the status code and the body; any other error raised by a
\* handler is thrown again.
C21_CallToolErrors ==
    Handled =>
        /\ rpc.name \notin Registered =>
              (rpc.out.threw /\ rpc.out.error = UnknownToolError(rpc.name))
        /\ (rpc.name \in Registered /\ HandlerOutcome.threw) =>
              IF HandlerOutcome.error.class = "JiraApiError"
              THEN AnswersWithError(HandlerOutcome.error)
              ELSE rpc.out.threw /\ rpc.out.error = HandlerOutcome.error

\* What does hold: the same for the names that are not members of
\* Object.prototype.
CallToolErrorsForPlainNames ==
    (Handled /\ rpc.name \notin PrototypeFunctions \cup {"__proto__"}) =>
        /\ rpc.name \notin Registered =>
              (rpc.out.threw /\ rpc.out.error = UnknownToolError(rpc.name))
        /\ (rpc.name \in Registered /\ HandlerOutcome.threw) =>
              IF HandlerOutcome.error.class = "JiraApiError"
              THEN AnswersWithError(HandlerOutcome.error)
              ELSE rpc.out.threw /\ rpc.out.error = HandlerOutcome.error

\* The JavaScript number is an integer of lo..hi.
IsIntegerIn(v, lo, hi) ==
    v.t = "num" /\ \E k \in lo..hi : v.n = ToString(k)

\* C22: in every search call the server makes on the Jira client,
\* maxResults is an integer between 1 and 100, 50 when the caller left it
\* out, and startAt is an integer of at least 0, 0 when the caller left it
\* out.
C22_SearchPagingInRange ==
    Handled =>
        \A i \in DOMAIN rpc.out.sent :
            rpc.out.sent[i].method = "search" =>
                /\ IsIntegerIn(rpc.out.sent[i].maxResults, 1, 100)
                /\ GetProp(rpc.args, "maxResults") = Undefined
                      => rpc.out.sent[i].maxResults = Num("50")
                /\ IsIntegerIn(rpc.out.sent[i].startAt, 0, 1000)
                /\ GetProp(rpc.args, "startAt") = Undefined
                      => rpc.out.sent[i].startAt = Num("0")

\* What does hold: the client gets the caller's values as they are.
SearchPagingAsGiven ==
    Handled =>
        \A i \in DOMAIN rpc.out.sent :
            rpc.out.sent[i].method = "search" =>
                /\ rpc.out.sent[i].maxResults = GetProp(rpc.args, "maxResults")
                /\ rpc.out.sent[i].startAt = GetProp(rpc.args, "startAt")

----------------------------------------------------------------------------
(* Properties of the session's handlers.                                   *)

NoKeys == {<<"n">>, <<"N">>, kEscape}

\* C23: a key that arrives while the session's view is confirm: n, N or
\* escape gives the credentials view with form, focused field and selected
\* tool as they were; a key other than y, Y, n, N and escape leaves the
\* whole session state as it was.
C23_ConfirmKeepsState ==
    (KeyHandled /\ ev.pre.view = "confirm") =>
        /\ ev.key.name \in NoKeys =>
              (proc = "running" /\ st = [ev.pre EXCEPT !.view = "credentials"])
        /\ ev.key.name \notin YesKeys \cup NoKeys =>
              (proc = "running" /\ st = ev.pre /\ ev.injected = <<>>)

\* What does hold: the same for a key whose handler is up to date.
ConfirmKeepsStateAfterRender ==
    (KeyHandled /\ ev.pre.view = "confirm" /\ HandlerUpToDate) =>
        /\ ev.key.name \in NoKeys =>
              (proc = "running" /\ st = [ev.pre EXCEPT !.view = "credentials"])
        /\ ev.key.name \notin YesKeys \cup NoKeys =>
              (proc = "running" /\ st = ev.pre /\ ev.injected = <<>>)

EventHandled == ev.kind \in {"key", "paste"}

\* What the event gives when its handler reads the state the event met.
OnCurrentState(ok) ==
    IF ev.kind = "key"
    THEN handleKeyboard(ev.key, Snapshot(ev.pre), ev.pre, ok)
    ELSE Stay(handlePaste(ev.text, Snapshot(ev.pre), ev.pre))

\* C24: every input event is processed against the session state it meets:
\* the state after the event is what its handler gives when it reads that
\* state, also when no render has happened since the event before.
C24_EventsSeeCurrentState ==
    EventHandled =>
        \E ok \in BOOLEAN :
            /\ st = OnCurrentState(ok).st
            /\ proc = OnCurrentState(ok).proc
            /\ ev.injected = OnCurrentState(ok).injected

\* What does hold: the same for the events that follow a render.
EventsAfterRenderSeeCurrentState ==
    (EventHandled /\ HandlerUpToDate) =>
        \E ok \in BOOLEAN :
            /\ st = OnCurrentState(ok).st
            /\ proc = OnCurrentState(ok).proc
            /\ ev.injected = OnCurrentState(ok).injected

FormFields == {"baseUrl", "username", "password"}
FieldNames == {"url", "username", "password"}

\* A paste, or a key that edits: a character, backspace, Ctrl+W, Ctrl+U.
EditingEvent ==
    \/ ev.kind = "paste"
    \/ /\ KeyHandled
       /\ \/ CharacterKey(ev.key)
          \/ ev.key \in {Key(kBackspace), CtrlKey(<<"w">>), CtrlKey(<<"u">>)}

EditsAndNavigationFramed ==
    /\ EditingEvent =>
          /\ \A f \in FormFields \ {fieldMap(ev.pre.currentField)} :
                st.form[f] = ev.pre.form[f]
          /\ st.view = ev.pre.view
          /\ st.selectedTool = ev.pre.selectedTool
    /\ (ev.key = Key(kBackspace)
            /\ ev.pre.form[fieldMap(ev.pre.currentField)] = <<>>)
          => st = ev.pre
    /\ ev.key = Key(kUp) =>
          st = [ev.pre EXCEPT !.currentField = PrevField(@)]
    /\ ev.key \in {Key(kDown), Key(kTab)} =>
          st = [ev.pre EXCEPT !.currentField = NextField(@)]
    /\ st.currentField \in FieldNames
    /\ (ev.key = Key(kUp) /\ ev.pre.currentField = "url")
          => st.currentField = "url"
    /\ (ev.key \in {Key(kDown), Key(kTab)} /\ ev.pre.currentField = "password")
          => st.currentField = "password"

\* C25: an editing event (character, backspace, Ctrl+W, Ctrl+U, paste) that
\* arrives while the session's view is credentials changes no field but
\* the focused one and leaves view and selected tool; backspace on an
\* empty field changes nothing; up, down and tab change the focused field
\* alone, by one step and without wrapping around.
C25_EditsTouchFocusedFieldOnly ==
    (EventHandled /\ ev.pre.view = "credentials") => EditsAndNavigationFramed

\* What does hold: the same for an event whose handler is up to date.
EditsTouchFocusedFieldAfterRender ==
    (EventHandled /\ ev.pre.view = "credentials" /\ HandlerUpToDate)
        => EditsAndNavigationFramed

PasteHandled == ev.kind = "paste"

Cleaned(text) == trim(RemoveControl(text))

PasteFramed ==
    IF ev.pre.view = "credentials" /\ Cleaned(ev.text) # <<>>
    THEN st = [ev.pre EXCEPT
                !.form = WithField(@, ev.pre.currentField,
                            ev.pre.form[fieldMap(ev.pre.currentField)]
                                \o Cleaned(ev.text))]
    ELSE st = ev.pre

\* C26: a paste that arrives while the session's view is not credentials
\* changes nothing; in credentials it appends the text, without control
\* characters and trimmed, to the focused field; a paste that is empty
\* after cleaning changes nothing.
C26_PasteOnlyInCredentials ==
    PasteHandled => PasteFramed

\* What does hold: the same for a paste whose listener is up to date.
PasteOnlyInCredentialsAfterRender ==
    (PasteHandled /\ HandlerUpToDate) => PasteFramed

\* C29: with a non-empty tool list, selectedIndex is an index of the list;
\* in the views credentials, confirm, success and error the selected tool
\* is a tool of the list; and the handler of y in confirm never meets a
\* null selected tool.
C29_SelectionStaysValid ==
    proc # "exit1" =>
        /\ Len(tools) > 0 => st.selectedIndex \in 0..(Len(tools) - 1)
        /\ st.view \in {"credentials", "confirm", "success", "error"} =>
              (st.selectedTool # NoTool /\ st.selectedTool \in Range(tools))
        /\ proc # "threw"
        /\ \A i \in DOMAIN injections : injections[i].tool \in Range(tools)

\* The second tool was chosen, by the key '2' or by moving down, and y was
\* accepted for it in confirm.
C29_Witness ==
    /\ Len(tools) = 2
    /\ st.selectedIndex = 1
    /\ st.selectedTool = tools[2]
    /\ st.view \in {"success", "error"}
    /\ Len(injections) = 1
    /\ injections[1].tool = tools[2]

\* C30: injectConfig runs at most once in a session; the y accepted in
\* confirm leaves the view success or error at once; and a key that
\* arrives while the session's view is success or error leaves the view.
C30_InjectionAtMostOnce ==
    /\ Len(injections) <= 1
    /\ (KeyHandled /\ ev.injected # <<>>) => st.view \in {"success", "error"}
    /\ (KeyHandled /\ ev.pre.view \in {"success", "error"})
          => st.view = ev.pre.view

\* What does hold: y handled by the confirm handler leaves a result view at
\* once, and a key whose handler is up to date never leaves a result view.
ResultViewsAreFinalAfterRender ==
    /\ (KeyHandled /\ ev.injected # <<>>) => st.view \in {"success", "error"}
    /\ (KeyHandled /\ ev.pre.view \in {"success", "error"} /\ HandlerUpToDate)
          => (st.view = ev.pre.view /\ ev.injected = <<>>)

====
